---- MODULE Spec2Model ----
(***************************************************************************)
(* The site classifier of the snow-pit querying notebook                   *)
(* (book/tutorials/core-datasets/03_practice-querying.ipynb):              *)
(* parse_veg_class and parse_depth_class, executed statement by statement  *)
(* by one synchronous Python kernel.                                       *)
(*                                                                         *)
(* A Python str is a sequence of characters; a character is written as a   *)
(* one-character string, or as its code point ("U+00BD") when it is not    *)
(* ASCII.  Python's 0-based site_id[0] is the sequence's element 1.        *)
(***************************************************************************)
EXTENDS Integers, Sequences, FiniteSets, TLC

VARIABLES
    \* The classifier, statement by statement
    pc,           \* the kernel's position: which function runs, at which statement
    site_id,      \* the parameter of the running call
    veg_class,    \* parse_veg_class's local dict, in insertion order
    depth_class,  \* parse_depth_class's local dict, in insertion order
    class_id,     \* the local class_id: a character, then an integer
    vclass,       \* parse_veg_class's local result
    dclass,       \* parse_depth_class's local result
    it,           \* the position of the running for loop in dict.items()
    ret,          \* what the last call gave its caller; no value while a call runs
    earlier,      \* what one earlier call gave, kept by the caller
    \* The cells that classify and count the density rows
    cell,            \* the statement of these cells the kernel is at
    df_site_id,      \* df['site_id'], one identifier a row
    acc,             \* the list a running comprehension has built so far
    df_veg_class,    \* df['veg_class'], once assigned
    df_depth_class,  \* df['depth_class'], once assigned
    veg_counts,      \* what the first print of the counting cell shows
    depth_counts,    \* what its second print shows
    \* The querying notebook's cells and its database sessions
    qcell,        \* the cell the kernel runs next
    sessions,     \* the sessions get_db has made, each with its transaction state
    session,      \* the session the name `session` is bound to (its number)
    image_dates,  \* the database: the dates of the sensor's rasters
    dates,        \* the list `dates`
    dt,           \* the date `dt`
    site_data,    \* the database: the pits, each site's date
    df,           \* the frame `df` of example 1a: its rows
    df_exact,     \* the frame `df_exact`: its rows
    df_range,     \* the frame `df_range`: its rows
    date_range,   \* the list `date_range`
    \* The lidar notebook's cells, its raster handles and its files
    lcell,        \* the cell the kernel runs next
    handles,      \* the dataset handles opened so far, each open or closed
    ns,           \* the kernel's names: a handle's number, or a value
    disk,         \* the raster files: their metadata and their data
    covered       \* for each source raster, the window the box of coords covers

cvars == <<pc, site_id, veg_class, depth_class, class_id, vclass, dclass, it, ret, earlier>>
dvars == <<cell, df_site_id, acc, df_veg_class, df_depth_class, veg_counts, depth_counts>>

pvars == <<site_data, df, df_exact, df_range, date_range>>

qvars == <<qcell, sessions, session, image_dates, dates, dt, pvars>>

lvars == <<lcell, handles, ns, disk, covered>>

vars == <<cvars, dvars, qvars, lvars>>

\* What a step of the classifier machine leaves alone.
others == <<dvars, qvars, lvars>>

----------------------------------------------------------------------------
(* Inputs *)

\* The longest site identifier drawn.
MaxLen == 2

AsciiDigits == {"0", "1", "2", "3", "4", "5", "6", "7", "8", "9"}

\* U+00BD is the vulgar fraction one half, U+0663 the Arabic-Indic digit three.
Chars == AsciiDigits \cup {"T", "x", " ", "-", "U+00BD", "U+0663"}

\* The characters drawn after the first one.
TailChars == {"x", "1"}

Tails == UNION {[1..n -> TailChars] : n \in 0..(MaxLen - 1)}

SiteIds == {<<>>} \cup {<<c>> \o t : c \in Chars, t \in Tails}

----------------------------------------------------------------------------
(* Python's built-ins, as the classifier uses them on one character *)

\* Mutant of isnumeric: str.isalnum(), which also accepts letters.
isalnum(c) == c \in AsciiDigits \cup {"U+00BD", "U+0663", "T", "x"}

\* str.isnumeric(): the characters with a Unicode numeric value.
isnumeric(c) == c \in AsciiDigits \cup {"U+00BD", "U+0663"}

\* int(c) returns for the decimal digits (Unicode category Nd) and raises
\* ValueError for every other character.
IntRaises(c) == c \notin AsciiDigits \cup {"U+0663"}

int(c) ==
    CASE c = "0" -> 0 [] c = "1" -> 1 [] c = "2" -> 2 [] c = "3" -> 3
      [] c = "4" -> 4 [] c = "5" -> 5 [] c = "6" -> 6 [] c = "7" -> 7
      [] c = "8" -> 8 [] c = "9" -> 9 [] c = "U+0663" -> 3

\* x in v, for a list v.
In(x, v) == \E i \in DOMAIN v : v[i] = x

----------------------------------------------------------------------------
(* Values *)

None == "None"
IndexError == "IndexError"
ValueError == "ValueError"

\* A name with no binding: the frame of a call is gone once the call ends.
Unbound == "<unbound>"
UnboundStr == <<Unbound>>
UnboundDict == <<>>

Idle == [fn |-> "none", at |-> 0]
At(fn, line) == [fn |-> fn, at |-> line]

NoCall == [fn |-> "none", arg |-> <<>>, val |-> None]
Outcome(fn, arg, val) == [fn |-> fn, arg |-> arg, val |-> val]

\* A finished call gives its outcome to the caller.
Give(out) ==
    /\ ret' = out
    /\ UNCHANGED earlier

\* The caller collects the results in a list while it goes on calling: when the
\* next call starts, the last outcome may be the one kept for comparison.
Collect ==
    /\ earlier' \in (IF earlier = NoCall THEN {NoCall, ret} ELSE {earlier})
    /\ ret' = NoCall

DropFrame ==
    /\ site_id' = UnboundStr
    /\ veg_class' = UnboundDict
    /\ depth_class' = UnboundDict
    /\ class_id' = Unbound
    /\ vclass' = Unbound
    /\ dclass' = Unbound
    /\ it' = 0

----------------------------------------------------------------------------
(* parse_veg_class *)

\* Mutants of VegClassDict: the depth axis's digit lists; overlapping lists;
\* digits counted from 0.
VegClassDictByDepth ==
    << <<"treeless", <<1, 4, 7>>>>, <<"sparse", <<2, 5, 8>>>>, <<"dense", <<3, 6, 9>>>> >>

VegClassDictOverlap ==
    << <<"treeless", <<1, 2, 3>>>>, <<"sparse", <<3, 5, 6>>>>, <<"dense", <<7, 8, 9>>>> >>

VegClassDictZeroBased ==
    << <<"treeless", <<0, 1, 2>>>>, <<"sparse", <<3, 4, 5>>>>, <<"dense", <<6, 7, 8>>>> >>

\* veg_class = {'treeless':[1, 2, 3], 'sparse':[4, 5, 6], 'dense':[7, 8, 9]}
VegClassDict ==
    << <<"treeless", <<1, 2, 3>>>>, <<"sparse", <<4, 5, 6>>>>, <<"dense", <<7, 8, 9>>>> >>

\* Mutant of VegInitial: vclass is not reset, and still holds the class the
\* last call found.
VegInitialStale ==
    IF ret.fn = "parse_veg_class" /\ ret.val \in {"treeless", "sparse", "dense"}
    THEN ret.val ELSE None

\* vclass = None
VegInitial == None

\* Mutant of VegClassId: the last character, site_id[-1].
VegClassIdLast(s) == s[Len(s)]

\* class_id = site_id[0]
VegClassId(s) == s[1]

\* def parse_veg_class(site_id): bind the parameter, build the dict, vclass = None
VegCall ==
    /\ pc = Idle
    /\ \E s \in SiteIds : site_id' = s
    /\ veg_class' = VegClassDict
    /\ vclass' = VegInitial
    /\ pc' = At("parse_veg_class", 302)
    /\ Collect
    /\ UNCHANGED <<depth_class, class_id, dclass, it>>
    /\ UNCHANGED others

\* class_id = site_id[0]: the empty string has no character 0
VegIndex ==
    /\ pc = At("parse_veg_class", 302)
    /\ \/ /\ Len(site_id) = 0
          /\ Give(Outcome("parse_veg_class", site_id, IndexError))
          /\ DropFrame
          /\ pc' = Idle
       \/ /\ Len(site_id) > 0
          /\ class_id' = VegClassId(site_id)
          /\ pc' = At("parse_veg_class", 304)
          /\ UNCHANGED <<site_id, veg_class, depth_class, vclass, dclass, it, ret, earlier>>
    /\ UNCHANGED others

\* if class_id.isnumeric(): class_id = int(class_id)
VegTest ==
    /\ pc = At("parse_veg_class", 304)
    /\ \/ /\ ~isnumeric(class_id)
          /\ pc' = At("parse_veg_class", 312)
          /\ UNCHANGED <<site_id, veg_class, depth_class, class_id, vclass, dclass, it, ret, earlier>>
       \/ /\ isnumeric(class_id)
          /\ IntRaises(class_id)
          /\ Give(Outcome("parse_veg_class", site_id, ValueError))
          /\ DropFrame
          /\ pc' = Idle
       \/ /\ isnumeric(class_id)
          /\ ~IntRaises(class_id)
          /\ class_id' = int(class_id)
          /\ it' = 1
          /\ pc' = At("parse_veg_class", 307)
          /\ UNCHANGED <<site_id, veg_class, depth_class, vclass, dclass, ret, earlier>>
    /\ UNCHANGED others

\* Mutant of VegLoop: the matched digit is removed from its list (v.remove).
VegLoopConsuming ==
    /\ pc = At("parse_veg_class", 307)
    /\ IF it > Len(veg_class)
       THEN /\ pc' = At("parse_veg_class", 312)
            /\ UNCHANGED <<vclass, it, veg_class>>
       ELSE /\ vclass' = IF In(class_id, veg_class[it][2]) THEN veg_class[it][1] ELSE vclass
            /\ veg_class' = [veg_class EXCEPT ![it][2] =
                                SelectSeq(veg_class[it][2], LAMBDA d : d # class_id)]
            /\ it' = it + 1
            /\ pc' = pc
    /\ UNCHANGED <<site_id, depth_class, class_id, dclass, ret, earlier>>
    /\ UNCHANGED others

\* Mutant of VegLoop: the loop stops at the first match (break).
VegLoopBreak ==
    /\ pc = At("parse_veg_class", 307)
    /\ IF it > Len(veg_class)
       THEN /\ pc' = At("parse_veg_class", 312)
            /\ UNCHANGED <<vclass, it>>
       ELSE IF In(class_id, veg_class[it][2])
            THEN /\ vclass' = veg_class[it][1]
                 /\ pc' = At("parse_veg_class", 312)
                 /\ UNCHANGED it
            ELSE /\ it' = it + 1
                 /\ pc' = pc
                 /\ UNCHANGED vclass
    /\ UNCHANGED <<site_id, veg_class, depth_class, class_id, dclass, ret, earlier>>
    /\ UNCHANGED others

\* for k,v in veg_class.items(): if class_id in v: vclass = k
\* One entry a step; the loop has no break, and ends after the last entry.
VegLoop ==
    /\ pc = At("parse_veg_class", 307)
    /\ IF it > Len(veg_class)
       THEN /\ pc' = At("parse_veg_class", 312)
            /\ UNCHANGED <<vclass, it>>
       ELSE /\ vclass' = IF In(class_id, veg_class[it][2]) THEN veg_class[it][1] ELSE vclass
            /\ it' = it + 1
            /\ pc' = pc
    /\ UNCHANGED <<site_id, veg_class, depth_class, class_id, dclass, ret, earlier>>
    /\ UNCHANGED others

\* return vclass
VegReturn ==
    /\ pc = At("parse_veg_class", 312)
    /\ Give(Outcome("parse_veg_class", site_id, vclass))
    /\ DropFrame
    /\ pc' = Idle
    /\ UNCHANGED others

----------------------------------------------------------------------------
(* parse_depth_class *)

\* Mutants of DepthClassDict: the vegetation axis's digit lists; a digit left out.
DepthClassDictByVeg ==
    << <<"shallow", <<1, 2, 3>>>>, <<"medium", <<4, 5, 6>>>>, <<"deep", <<7, 8, 9>>>> >>

DepthClassDictShort ==
    << <<"shallow", <<1, 4, 7>>>>, <<"medium", <<2, 5, 8>>>>, <<"deep", <<3, 6>>>> >>

\* depth_class = {'shallow':[1, 4, 7], 'medium':[2, 5, 8], 'deep':[3, 6, 9]}
DepthClassDict ==
    << <<"shallow", <<1, 4, 7>>>>, <<"medium", <<2, 5, 8>>>>, <<"deep", <<3, 6, 9>>>> >>

\* dclass = None
DepthInitial == None

\* class_id = site_id[0]
DepthClassId(s) == s[1]

\* def parse_depth_class(site_id): bind the parameter, build the dict, dclass = None
DepthCall ==
    /\ pc = Idle
    /\ \E s \in SiteIds : site_id' = s
    /\ depth_class' = DepthClassDict
    /\ dclass' = DepthInitial
    /\ pc' = At("parse_depth_class", 353)
    /\ Collect
    /\ UNCHANGED <<veg_class, class_id, vclass, it>>
    /\ UNCHANGED others

\* class_id = site_id[0]: the empty string has no character 0
DepthIndex ==
    /\ pc = At("parse_depth_class", 353)
    /\ \/ /\ Len(site_id) = 0
          /\ Give(Outcome("parse_depth_class", site_id, IndexError))
          /\ DropFrame
          /\ pc' = Idle
       \/ /\ Len(site_id) > 0
          /\ class_id' = DepthClassId(site_id)
          /\ pc' = At("parse_depth_class", 355)
          /\ UNCHANGED <<site_id, veg_class, depth_class, vclass, dclass, it, ret, earlier>>
    /\ UNCHANGED others

\* if class_id.isnumeric(): class_id = int(class_id)
DepthTest ==
    /\ pc = At("parse_depth_class", 355)
    /\ \/ /\ ~isnumeric(class_id)
          /\ pc' = At("parse_depth_class", 363)
          /\ UNCHANGED <<site_id, veg_class, depth_class, class_id, vclass, dclass, it, ret, earlier>>
       \/ /\ isnumeric(class_id)
          /\ IntRaises(class_id)
          /\ Give(Outcome("parse_depth_class", site_id, ValueError))
          /\ DropFrame
          /\ pc' = Idle
       \/ /\ isnumeric(class_id)
          /\ ~IntRaises(class_id)
          /\ class_id' = int(class_id)
          /\ it' = 1
          /\ pc' = At("parse_depth_class", 358)
          /\ UNCHANGED <<site_id, veg_class, depth_class, vclass, dclass, ret, earlier>>
    /\ UNCHANGED others

\* for k,v in depth_class.items(): if class_id in v: dclass = k
DepthLoop ==
    /\ pc = At("parse_depth_class", 358)
    /\ IF it > Len(depth_class)
       THEN /\ pc' = At("parse_depth_class", 363)
            /\ UNCHANGED <<dclass, it>>
       ELSE /\ dclass' = IF In(class_id, depth_class[it][2]) THEN depth_class[it][1] ELSE dclass
            /\ it' = it + 1
            /\ pc' = pc
    /\ UNCHANGED <<site_id, veg_class, depth_class, class_id, vclass, ret, earlier>>
    /\ UNCHANGED others

\* return dclass
DepthReturn ==
    /\ pc = At("parse_depth_class", 363)
    /\ Give(Outcome("parse_depth_class", site_id, dclass))
    /\ DropFrame
    /\ pc' = Idle
    /\ UNCHANGED others

----------------------------------------------------------------------------
(* A call as a whole: what parse_veg_class(s) and parse_depth_class(s) give *)

\* The for loop over dict.items() from entry i on, with the result k so far.
RECURSIVE Items(_, _, _, _)
Items(dict, c, i, k) ==
    IF i > Len(dict) THEN k
    ELSE Items(dict, c, i + 1, IF In(c, dict[i][2]) THEN dict[i][1] ELSE k)

parse_veg_class(s) ==
    IF Len(s) = 0 THEN IndexError
    ELSE LET c == VegClassId(s) IN
         IF ~isnumeric(c) THEN VegInitial
         ELSE IF IntRaises(c) THEN ValueError
         ELSE Items(VegClassDict, int(c), 1, VegInitial)

parse_depth_class(s) ==
    IF Len(s) = 0 THEN IndexError
    ELSE LET c == DepthClassId(s) IN
         IF ~isnumeric(c) THEN DepthInitial
         ELSE IF IntRaises(c) THEN ValueError
         ELSE Items(DepthClassDict, int(c), 1, DepthInitial)

Raised(r) == r \in {IndexError, ValueError}

----------------------------------------------------------------------------
(* The cells that classify the density rows and count the classes.          *)
(* What they only display (df.sample, print, the plots) is left out.        *)

\* The most rows drawn for df.
MaxRows == 3

\* The site identifiers drawn for df['site_id'].
DfSiteIds ==
    {<<>>, <<"7", "x", "x">>}
        \cup {<<c>> : c \in AsciiDigits \cup {"T", "U+00BD", "U+0663"}}

DfColumns == UNION {[1..n -> DfSiteIds] : n \in 0..MaxRows}

\* A column df does not have, and a print that has not run.
NoColumn == <<"<no column>">>
NoCounts == <<>>

\* df['veg_class'] = [parse_veg_class(i) for i in df['site_id']]: one row a step;
\* an exception out of a call ends the statement and the run, and df is as it was.
VegColumnNext ==
    /\ cell = "veg_class"
    /\ Len(acc) < Len(df_site_id)
    /\ LET r == parse_veg_class(df_site_id[Len(acc) + 1]) IN
         IF Raised(r)
         THEN cell' = "raised" /\ acc' = <<>>
         ELSE cell' = cell /\ acc' = Append(acc, r)
    /\ UNCHANGED <<df_site_id, df_veg_class, df_depth_class, veg_counts, depth_counts>>
    /\ UNCHANGED <<cvars, qvars, lvars>>

VegColumnAssign ==
    /\ cell = "veg_class"
    /\ Len(acc) = Len(df_site_id)
    /\ df_veg_class' = acc
    /\ acc' = <<>>
    /\ cell' = "depth_class"
    /\ UNCHANGED <<df_site_id, df_depth_class, veg_counts, depth_counts>>
    /\ UNCHANGED <<cvars, qvars, lvars>>

\* df['depth_class'] = [parse_depth_class(i) for i in df['site_id']]
DepthColumnNext ==
    /\ cell = "depth_class"
    /\ Len(acc) < Len(df_site_id)
    /\ LET r == parse_depth_class(df_site_id[Len(acc) + 1]) IN
         IF Raised(r)
         THEN cell' = "raised" /\ acc' = <<>>
         ELSE cell' = cell /\ acc' = Append(acc, r)
    /\ UNCHANGED <<df_site_id, df_veg_class, df_depth_class, veg_counts, depth_counts>>
    /\ UNCHANGED <<cvars, qvars, lvars>>

DepthColumnAssign ==
    /\ cell = "depth_class"
    /\ Len(acc) = Len(df_site_id)
    /\ df_depth_class' = acc
    /\ acc' = <<>>
    /\ cell' = "groupby"
    /\ UNCHANGED <<df_site_id, df_veg_class, veg_counts, depth_counts>>
    /\ UNCHANGED <<cvars, qvars, lvars>>

\* gb = df.groupby(['site_id', 'veg_class', 'depth_class']): one group for each
\* (site_id, veg_class, depth_class) of a row; pandas drops the rows with a
\* missing (None) key.
Groups ==
    {<<df_site_id[i], df_veg_class[i], df_depth_class[i]>> :
        i \in {j \in DOMAIN df_site_id :
                  df_veg_class[j] # None /\ df_depth_class[j] # None}}

\* Mutant of Count: the rows of a class are counted, not its groups
\* (df.groupby(axis)['site_id'].count()).
CountRows(groups, axis) ==
    LET col == IF axis = 2 THEN df_veg_class ELSE df_depth_class IN
    [k \in {g[axis] : g \in groups} |->
        Cardinality({i \in DOMAIN col : col[i] = k})]

\* gb['site_id'].count().groupby(axis).count(): for each class among the
\* groups, how many groups have it.
Count(groups, axis) ==
    [k \in {g[axis] : g \in groups} |-> Cardinality({g \in groups : g[axis] = k})]

\* The counting cell.
GroupBy ==
    /\ cell = "groupby"
    /\ veg_counts' = Count(Groups, 2)
    /\ depth_counts' = Count(Groups, 3)
    /\ cell' = "end"
    /\ UNCHANGED <<df_site_id, acc, df_veg_class, df_depth_class>>
    /\ UNCHANGED <<cvars, qvars, lvars>>

----------------------------------------------------------------------------
(* The querying notebook, cell by cell, and its sessions.                   *)
(*                                                                          *)
(* A session (SQLAlchemy) begins a transaction when a query is executed on  *)
(* it (.all()) and none is open; close() and rollback() end the             *)
(* transaction, and the session can be used again afterwards.               *)
(* session.query(...) alone executes nothing, and query_to_geopandas        *)
(* executes its query on the engine, not on the session.  What the cells    *)
(* only display is left out; a cell that raises ends the run.               *)

\* The days drawn for the dates in the database are 1..MaxDay.
MaxDay == 3
Days == 1..MaxDay

\* datetime.date(2020, 2, 12), as a day.
KnownDate == 2

\* The lists with the members of set S, each once: the rows of a SELECT
\* DISTINCT with no ORDER BY come in any order.
ListsOf(S) ==
    {l \in [1..Cardinality(S) -> S] : \A i, j \in DOMAIN l : l[i] = l[j] => i = j}

\* The sites of the pits drawn for the database, and the days of their dates:
\* the days of the rasters, and days before and after them.
PitIds == {"1N1", "5S21", "9C16"}
PitDays == 0..(MaxDay + 2)

\* The rows of SiteData: geom is left out.
Rows(sd) == {[site_id |-> p, date |-> sd[p]] : p \in DOMAIN sd}

\* query_to_geopandas(session.query(SiteData.geom, SiteData.site_id,
\* SiteData.date).filter(SiteData.date.in_(ds)), engine), for a list ds
PitsIn(ds) == {r \in Rows(site_data) : In(r.date, ds)}

\* ... .filter(SiteData.date == d) ...
PitsOn(d) == {r \in Rows(site_data) : r.date = d}

\* The days from d on.
DateRangeAhead(d) == [i \in 1..3 |-> d + (i - 1)]

\* [d + i * datetime.timedelta(days=1) for i in [-1, 0, 1]]
DateRange(d) == [i \in 1..3 |-> d + (i - 2)]

\* engine, session = get_db(db_name)
GetDb ==
    /\ sessions' = Append(sessions, "new")
    /\ session' = Len(sessions) + 1

\* A query is executed on the session bound to `session`.
Execute(ss) == [ss EXCEPT ![session] = "transaction"]

\* session.close(), session.rollback()
SessionClose(ss) == [ss EXCEPT ![session] = "closed"]
SessionRollback(ss) == [ss EXCEPT ![session] = "rolled back"]

\* load the database
LoadDb ==
    /\ qcell = "load the database"
    /\ GetDb
    /\ qcell' = "sensors"
    /\ UNCHANGED <<image_dates, dates, dt>>
    /\ UNCHANGED pvars
    /\ UNCHANGED <<cvars, dvars, lvars>>

\* airborne_sensors_list = session.query(ImageData.surveyors).distinct().all()
ListSensors ==
    /\ qcell = "sensors"
    /\ sessions' = Execute(sessions)
    /\ qcell' = "1a"
    /\ UNCHANGED <<session, image_dates, dates, dt>>
    /\ UNCHANGED pvars
    /\ UNCHANGED <<cvars, dvars, lvars>>

\* 1a: dates = qry.all(), the pits of these dates through the engine, then
\* session.close()
Example1a ==
    /\ qcell = "1a"
    /\ dates' \in ListsOf(image_dates)
    /\ df' = PitsIn(dates')
    /\ sessions' = SessionClose(Execute(sessions))
    /\ qcell' = "1b"
    /\ UNCHANGED <<session, image_dates, dt>>
    /\ UNCHANGED <<site_data, df_exact, df_range, date_range>>
    /\ UNCHANGED <<cvars, dvars, lvars>>

\* 1b: dt = dates[0] (IndexError on an empty list); the pits of dt through
\* the engine
Example1b ==
    /\ qcell = "1b"
    /\ IF Len(dates) = 0
       THEN qcell' = "raised" /\ UNCHANGED <<dt, df_exact>>
       ELSE qcell' = "1c" /\ dt' = dates[1] /\ df_exact' = PitsOn(dt')
    /\ UNCHANGED <<sessions, session, image_dates, dates>>
    /\ UNCHANGED <<site_data, df, df_range, date_range>>
    /\ UNCHANGED <<cvars, dvars, lvars>>

\* 1c: the pits of dt - 1, dt, dt + 1 through the engine
Example1c ==
    /\ qcell = "1c"
    /\ date_range' = DateRange(dt)
    /\ df_range' = PitsIn(date_range')
    /\ qcell' = "1d"
    /\ UNCHANGED <<sessions, session, image_dates, dates, dt>>
    /\ UNCHANGED <<site_data, df, df_exact>>
    /\ UNCHANGED <<cvars, dvars, lvars>>

\* 1d: dt = datetime.date(2020, 2, 12); six queries executed on the session
Example1d ==
    /\ qcell = "1d"
    /\ dt' = KnownDate
    /\ sessions' = Execute(sessions)
    /\ qcell' = "density"
    /\ UNCHANGED <<session, image_dates, dates>>
    /\ UNCHANGED pvars
    /\ UNCHANGED <<cvars, dvars, lvars>>

\* Load the database again; result = session.query(LayerData.type).distinct().all();
\* the density rows through the engine.  The classes and counts of these rows
\* are the cells of SpecDf.
LoadDensity ==
    /\ qcell = "density"
    /\ sessions' = Append(sessions, "transaction")
    /\ session' = Len(sessions) + 1
    /\ qcell' = "rollback"
    /\ UNCHANGED <<image_dates, dates, dt>>
    /\ UNCHANGED pvars
    /\ UNCHANGED <<cvars, dvars, lvars>>

\* session.rollback()
Rollback ==
    /\ qcell = "rollback"
    /\ sessions' = SessionRollback(sessions)
    /\ qcell' = "close"
    /\ UNCHANGED <<session, image_dates, dates, dt>>
    /\ UNCHANGED pvars
    /\ UNCHANGED <<cvars, dvars, lvars>>

\* session.close()
CloseSession ==
    /\ qcell = "close"
    /\ sessions' = SessionClose(sessions)
    /\ qcell' = "end"
    /\ UNCHANGED <<session, image_dates, dates, dt>>
    /\ UNCHANGED pvars
    /\ UNCHANGED <<cvars, dvars, lvars>>

----------------------------------------------------------------------------
(* The lidar notebook, cell by cell: its raster handles and the clipped     *)
(* rasters it writes.                                                       *)
(*                                                                          *)
(* rasterio.open and xarray.open_rasterio each make a new handle on a file; *)
(* close() closes the handle it is called on, and does nothing on a closed  *)
(* one; a `with` block closes its handle when it ends.  Reading a closed    *)
(* handle raises, and a cell that raises ends the run.  The figures the     *)
(* cells draw are left out, the handles they read for them are not.         *)

\* The files, by the name or the role they have in the notebook.
fparts_SD_GM_3m == "ASO_GrandMesa_2020Feb1-2_snowdepth_3m_clipped.tif"
fparts_SD_GM_50m == "ASO_GrandMesa_Mosaic_2020Feb1-2_snowdepth_50m.tif"
fparts_chm == "CHM_20160926GMb_700x700_EPSG32612.tif"
out_tif == "ASO_GrandMesa_2020Feb1-2_snowdepth_3m_clip_GMb.tif"
out_tif_50 == "ASO_GrandMesa_Mosaic_2020Feb1-2_snowdepth_50m_clip_GMb.tif"

\* The sizes drawn for a raster and for a window of it, in pixels, are
\* 5, 10, .., 5 * MaxDim: a window has at least the five 50 m pixels of one
\* 250 m pixel.
MaxDim == 2
Sizes == {5 * k : k \in 1..MaxDim}

\* The coordinate systems drawn for the source rasters: UTM zone 12 on WGS84
\* and on NAD83.
EpsgCodes == {32612, 26912}

\* The CRS of a file in the given EPSG code, as rasterio reports it.
EpsgCrs(code) == [init |-> <<"epsg:", code>>]

\* int(crs.data['init'][5:])
EpsgCodeOf(crs) == crs.init[2]

\* pycrs.parse.from_epsg_code(code).to_proj4()
to_proj4(code) ==
    [proj |-> "utm", zone |-> code % 100,
     datum |-> IF code \div 100 = 326 THEN "WGS84" ELSE "NAD83"]

\* A source raster file of the given size and EPSG code.
SourceFile(f, code, h, w) ==
    [meta |-> [driver |-> "GTiff", count |-> 1, height |-> h, width |-> w,
               transform |-> <<f, "whole">>, crs |-> EpsgCrs(code)],
     data |-> [of |-> f, shape |-> <<1, h, w>>]]

\* Does the name hold an open handle ?
IsOpen(n) == n \in DOMAIN ns /\ handles[ns[n]].open

\* The names whose handles a cell reads.
Reads(c) ==
    CASE c = "inspect SD_GM_3m" -> {"SD_GM_3m"}
      [] c = "inspect dat_array_3m" -> {"dat_array_3m"}
      [] c = "inspect chm" -> {"chm"}
      [] c = "mask SD_GM_3m" -> {"SD_GM_3m"}
      [] c = "out_meta" -> {"SD_GM_3m"}
      [] c = "plot SD_GMb_3m" -> {"SD_GMb_3m"}
      [] c = "mask SD_GM_50m" -> {"SD_GM_50m"}
      [] c = "compare" -> {"SD_GMb_3m", "SD_GMb_50m"}
      [] OTHER -> {}

\* One cell: it runs when its turn has come, and raises when it reads a
\* closed handle.
Cell(c, next, effect) ==
    /\ lcell = c
    /\ IF \A n \in Reads(c) : IsOpen(n)
       THEN lcell' = next /\ effect
       ELSE lcell' = "raised" /\ UNCHANGED <<handles, ns, disk>>
    /\ UNCHANGED covered
    /\ UNCHANGED <<cvars, dvars, qvars>>

\* name = rasterio.open(f) or name = xarray.open_rasterio(f)
Open(name, lib, f) ==
    /\ handles' = Append(handles, [file |-> f, lib |-> lib, mode |-> "r", open |-> TRUE])
    /\ ns' = (name :> Len(handles) + 1) @@ ns
    /\ UNCHANGED disk

\* name.close() for each of the names
Close(names) ==
    /\ handles' = [i \in DOMAIN handles |->
                     IF \E n \in names : ns[n] = i
                     THEN [handles[i] EXCEPT !.open = FALSE]
                     ELSE handles[i]]
    /\ UNCHANGED <<ns, disk>>

\* mask(dataset, coords, crop=True): the window of the raster that the box
\* covers, and its transform
mask(f) ==
    [img |-> [of |-> f, shape |-> <<1, covered[f].height, covered[f].width>>],
     transform |-> <<f, "window">>]

\* meta.update({"driver": "GTiff", "height": img.shape[1], "width":
\* img.shape[2], "transform": transform, "crs": ...to_proj4()})
Updated(meta, img, transform, code) ==
    [meta EXCEPT !.driver = "GTiff", !.height = img.shape[2],
                 !.width = img.shape[3], !.transform = transform,
                 !.crs = to_proj4(code)]

\* with rasterio.open(f, "w", **meta) as dest: dest.write(img)
Write(f, meta, img) ==
    /\ handles' = Append(handles, [file |-> f, lib |-> "rasterio", mode |-> "w", open |-> FALSE])
    /\ disk' = (f :> [meta |-> meta, data |-> img]) @@ disk
    /\ ns' = ("dest" :> Len(handles) + 1) @@ ns

\* SD_GM_3m = rasterio.open(fparts_SD_GM_3m)
OpenSD3m ==
    Cell("open SD_GM_3m", "inspect SD_GM_3m",
         Open("SD_GM_3m", "rasterio", fparts_SD_GM_3m))

\* SD_GM_3m.crs, .res, .bounds, .width and .height, show((SD_GM_3m, 1), ...)
InspectSD3m ==
    Cell("inspect SD_GM_3m", "close SD_GM_3m", UNCHANGED <<handles, ns, disk>>)

\* # First, close the rasterio file: SD_GM_3m.close()
CloseSD3m ==
    Cell("close SD_GM_3m", "open dat_array_3m", Close({"SD_GM_3m"}))

\* dat_array_3m = xarray.open_rasterio(fparts_SD_GM_3m)
OpenArray3m ==
    Cell("open dat_array_3m", "inspect dat_array_3m",
         Open("dat_array_3m", "xarray", fparts_SD_GM_3m))

\* imshow(dat_array_3m.data[0,:,:], ...), np.nanmax(dat_array_3m)
InspectArray3m ==
    Cell("inspect dat_array_3m", "open chm", UNCHANGED <<handles, ns, disk>>)

\* chm = xarray.open_rasterio('data/CHM_20160926GMb_700x700_EPSG32612.tif')
OpenChm ==
    Cell("open chm", "inspect chm", Open("chm", "xarray", fparts_chm))

\* chm.crs, chm.data, and the box of chm's extent: bbox, geo, coords
InspectChm ==
    Cell("inspect chm", "close SD_GM_3m again", UNCHANGED <<handles, ns, disk>>)

\* SD_GM_3m.close(), a second time
CloseSD3mAgain ==
    Cell("close SD_GM_3m again", "reopen SD_GM_3m", Close({"SD_GM_3m"}))

\* The cell goes on with no new handle.
ReopenSD3mLeftOut ==
    Cell("reopen SD_GM_3m", "mask SD_GM_3m", UNCHANGED <<handles, ns, disk>>)

\* SD_GM_3m = rasterio.open(fparts_SD_GM_3m)
ReopenSD3m ==
    Cell("reopen SD_GM_3m", "mask SD_GM_3m",
         Open("SD_GM_3m", "rasterio", fparts_SD_GM_3m))

\* out_img, out_transform = mask(SD_GM_3m, coords, crop=True)
MaskSD3m ==
    Cell("mask SD_GM_3m", "out_meta",
         /\ ns' = ("out_img" :> mask(fparts_SD_GM_3m).img)
                  @@ ("out_transform" :> mask(fparts_SD_GM_3m).transform) @@ ns
         /\ UNCHANGED <<handles, disk>>)

\* out_meta = SD_GM_3m.meta.copy(); epsg_code = int(SD_GM_3m.crs.data['init'][5:])
Meta3m ==
    Cell("out_meta", "update out_meta",
         /\ ns' = ("out_meta" :> disk[fparts_SD_GM_3m].meta)
                  @@ ("epsg_code" :> EpsgCodeOf(disk[fparts_SD_GM_3m].meta.crs)) @@ ns
         /\ UNCHANGED <<handles, disk>>)

\* out_meta.update({...})
UpdateMeta3m ==
    Cell("update out_meta", "write out_tif",
         /\ ns' = ("out_meta" :> Updated(ns["out_meta"], ns["out_img"],
                                         ns["out_transform"], ns["epsg_code"])) @@ ns
         /\ UNCHANGED <<handles, disk>>)

\* with rasterio.open(out_tif, "w", **out_meta) as dest: dest.write(out_img)
Write3m ==
    Cell("write out_tif", "open SD_GMb_3m",
         Write(out_tif, ns["out_meta"], ns["out_img"]))

\* SD_GMb_3m = xarray.open_rasterio(out_tif)
OpenClip3m ==
    Cell("open SD_GMb_3m", "plot SD_GMb_3m", Open("SD_GMb_3m", "xarray", out_tif))

\* imshow(SD_GMb_3m.data[0,:,:], ...)
PlotClip3m ==
    Cell("plot SD_GMb_3m", "open SD_GM_50m", UNCHANGED <<handles, ns, disk>>)

\* SD_GM_50m = rasterio.open("data/ASO_GrandMesa_Mosaic_2020Feb1-2_snowdepth_50m.tif")
OpenSD50m ==
    Cell("open SD_GM_50m", "mask SD_GM_50m",
         Open("SD_GM_50m", "rasterio", fparts_SD_GM_50m))

\* out_img_50, out_transform_50 = mask(SD_GM_50m, coords, crop=True);
\* out_meta_50 = SD_GM_50m.meta.copy();
\* epsg_code_50 = int(SD_GM_50m.crs.data['init'][5:])
MaskSD50m ==
    Cell("mask SD_GM_50m", "update out_meta_50",
         /\ ns' = ("out_img_50" :> mask(fparts_SD_GM_50m).img)
                  @@ ("out_transform_50" :> mask(fparts_SD_GM_50m).transform)
                  @@ ("out_meta_50" :> disk[fparts_SD_GM_50m].meta)
                  @@ ("epsg_code_50" :> EpsgCodeOf(disk[fparts_SD_GM_50m].meta.crs))
                  @@ ns
         /\ UNCHANGED <<handles, disk>>)

\* out_meta_50.update({..., "crs": pycrs.parse.from_epsg_code(epsg_code).to_proj4()})
UpdateMeta50m ==
    Cell("update out_meta_50", "write out_tif_50",
         /\ ns' = ("out_meta_50" :> Updated(ns["out_meta_50"], ns["out_img_50"],
                                            ns["out_transform_50"], ns["epsg_code"])) @@ ns
         /\ UNCHANGED <<handles, disk>>)

\* with rasterio.open(out_tif_50, "w", **out_meta_50) as dest: dest.write(out_img_50)
Write50m ==
    Cell("write out_tif_50", "close SD_GM_50m",
         Write(out_tif_50, ns["out_meta_50"], ns["out_img_50"]))

\* SD_GM_50m.close()
CloseSD50m ==
    Cell("close SD_GM_50m", "open SD_GMb_50m", Close({"SD_GM_50m"}))

\* SD_GMb_50m = xarray.open_rasterio(out_tif_50)
OpenClip50m ==
    Cell("open SD_GMb_50m", "compare", Open("SD_GMb_50m", "xarray", out_tif_50))

\* imshow and hist of SD_GMb_3m.data and SD_GMb_50m.data
Compare ==
    Cell("compare", "close the clips", UNCHANGED <<handles, ns, disk>>)

\* SD_GMb_3m.close(); SD_GMb_50m.close(); chm.close()
CloseClips ==
    Cell("close the clips", "resample", Close({"SD_GMb_3m", "SD_GMb_50m", "chm"}))

\* upscale_factor = 50/250; SD_GMb_50m_rio = rasterio.open(<out_tif_50>);
\* new_res = SD_GMb_50m_rio.read(out_shape=(count, int(height * upscale_factor),
\* int(width * upscale_factor)), resampling=Resampling.bilinear)
Resample ==
    Cell("resample", "close SD_GMb_50m_rio",
         /\ handles' = Append(handles, [file |-> out_tif_50, lib |-> "rasterio",
                                        mode |-> "r", open |-> TRUE])
         /\ ns' = ("SD_GMb_50m_rio" :> Len(handles) + 1)
                  @@ ("new_res" :> [of |-> out_tif_50,
                                    shape |-> <<disk[out_tif_50].meta.count,
                                                (disk[out_tif_50].meta.height * 50) \div 250,
                                                (disk[out_tif_50].meta.width * 50) \div 250>>])
                  @@ ns
         /\ UNCHANGED disk)

\* SD_GMb_50m_rio.close()
CloseRio ==
    Cell("close SD_GMb_50m_rio", "end", Close({"SD_GMb_50m_rio"}))

----------------------------------------------------------------------------
(* The specifications: the cells of one notebook run while the rest is off *)

\* The querying notebook is not running.
QueryOff ==
    /\ qcell = "off"
    /\ sessions = <<>>
    /\ session = 0
    /\ image_dates = {}
    /\ dates = <<>>
    /\ dt = 0
    /\ site_data = <<>>
    /\ df = {}
    /\ df_exact = {}
    /\ df_range = {}
    /\ date_range = <<>>

\* The lidar notebook is not running.
LidarOff ==
    /\ lcell = "off"
    /\ handles = <<>>
    /\ ns = <<>>
    /\ disk = <<>>
    /\ covered = <<>>

\* The cells are not running.
DfOff ==
    /\ cell = "off"
    /\ df_site_id = <<>>
    /\ acc = <<>>
    /\ df_veg_class = NoColumn
    /\ df_depth_class = NoColumn
    /\ veg_counts = NoCounts
    /\ depth_counts = NoCounts

\* No call is running.
ClassifierOff ==
    /\ pc = Idle
    /\ site_id = UnboundStr
    /\ veg_class = UnboundDict
    /\ depth_class = UnboundDict
    /\ class_id = Unbound
    /\ vclass = Unbound
    /\ dclass = Unbound
    /\ it = 0
    /\ ret = NoCall
    /\ earlier = NoCall

\* The query has given df its rows; the classifying statements are next.
InitDf ==
    /\ ClassifierOff
    /\ cell = "veg_class"
    /\ df_site_id \in DfColumns
    /\ acc = <<>>
    /\ df_veg_class = NoColumn
    /\ df_depth_class = NoColumn
    /\ veg_counts = NoCounts
    /\ depth_counts = NoCounts
    /\ QueryOff
    /\ LidarOff

NextDf ==
    \/ VegColumnNext \/ VegColumnAssign
    \/ DepthColumnNext \/ DepthColumnAssign
    \/ GroupBy

SpecDf == InitDf /\ [][NextDf]_vars

\* A fresh kernel, and a database with some dates of the sensor's rasters.
InitQuery ==
    /\ ClassifierOff
    /\ DfOff
    /\ qcell = "load the database"
    /\ sessions = <<>>
    /\ session = 0
    /\ image_dates \in SUBSET Days
    /\ dates = <<>>
    /\ dt = 0
    /\ site_data \in UNION {[P -> PitDays] : P \in SUBSET PitIds}
    /\ df = {}
    /\ df_exact = {}
    /\ df_range = {}
    /\ date_range = <<>>
    /\ LidarOff

NextQuery ==
    \/ LoadDb \/ ListSensors \/ Example1a \/ Example1b \/ Example1c \/ Example1d
    \/ LoadDensity \/ Rollback \/ CloseSession

SpecQuery == InitQuery /\ [][NextQuery]_vars

\* A fresh kernel, the two source rasters of some size and coordinate
\* system, and a box that covers a window of each
InitLidar ==
    /\ ClassifierOff
    /\ DfOff
    /\ QueryOff
    /\ lcell = "open SD_GM_3m"
    /\ handles = <<>>
    /\ ns = <<>>
    /\ \E c3, c50 \in EpsgCodes, h3, w3, h50, w50 \in Sizes :
         disk = (fparts_SD_GM_3m :> SourceFile(fparts_SD_GM_3m, c3, h3, w3))
                @@ (fparts_SD_GM_50m :> SourceFile(fparts_SD_GM_50m, c50, h50, w50))
                @@ (fparts_chm :> SourceFile(fparts_chm, 32612, 700, 700))
    /\ covered \in [{fparts_SD_GM_3m, fparts_SD_GM_50m} -> [height : Sizes, width : Sizes]]
    /\ \A f \in DOMAIN covered :
         /\ covered[f].height <= disk[f].meta.height
         /\ covered[f].width <= disk[f].meta.width

NextLidar ==
    \/ OpenSD3m \/ InspectSD3m \/ CloseSD3m \/ OpenArray3m \/ InspectArray3m
    \/ OpenChm \/ InspectChm \/ CloseSD3mAgain \/ ReopenSD3m \/ MaskSD3m
    \/ Meta3m \/ UpdateMeta3m \/ Write3m \/ OpenClip3m \/ PlotClip3m
    \/ OpenSD50m \/ MaskSD50m \/ UpdateMeta50m \/ Write50m \/ CloseSD50m
    \/ OpenClip50m \/ Compare \/ CloseClips \/ Resample \/ CloseRio

SpecLidar == InitLidar /\ [][NextLidar]_vars

----------------------------------------------------------------------------
(* The kernel: no call has run; then one call at a time, each to its end *)

Init ==
    /\ pc = Idle
    /\ site_id = UnboundStr
    /\ veg_class = UnboundDict
    /\ depth_class = UnboundDict
    /\ class_id = Unbound
    /\ vclass = Unbound
    /\ dclass = Unbound
    /\ it = 0
    /\ ret = NoCall
    /\ earlier = NoCall
    /\ DfOff
    /\ QueryOff
    /\ LidarOff

Next ==
    \/ VegCall \/ VegIndex \/ VegTest \/ VegLoop \/ VegReturn
    \/ DepthCall \/ DepthIndex \/ DepthTest \/ DepthLoop \/ DepthReturn

Spec == Init /\ [][Next]_vars

----------------------------------------------------------------------------
(* Properties *)

Veg == "parse_veg_class"
Depth == "parse_depth_class"

\* A call of fn has ended and its outcome is with the caller.
Ended(fn) == pc = Idle /\ ret.fn = fn

\* Two calls have ended: an earlier one, kept by the caller, and the last one.
TwoEnded == pc = Idle /\ earlier.fn # "none" /\ ret.fn # "none"

FirstIs(out, cs) == Len(out.arg) > 0 /\ out.arg[1] \in cs

\* C1: a site identifier whose first character is 1, 2 or 3 is classified
\* treeless by the vegetation classifier, one starting with 4, 5 or 6 sparse,
\* one starting with 7, 8 or 9 dense, whatever follows the first character.
C1_VegMapping ==
    Ended(Veg) =>
        /\ FirstIs(ret, {"1", "2", "3"}) => ret.val = "treeless"
        /\ FirstIs(ret, {"4", "5", "6"}) => ret.val = "sparse"
        /\ FirstIs(ret, {"7", "8", "9"}) => ret.val = "dense"

C1_Witness == Ended(Veg) /\ ret.arg = <<"7", "x">> /\ ret.val = "dense"

\* C2: a site identifier whose first character is 1, 4 or 7 is classified
\* shallow by the depth classifier, one starting with 2, 5 or 8 medium, one
\* starting with 3, 6 or 9 deep, whatever follows the first character.
C2_DepthMapping ==
    Ended(Depth) =>
        /\ FirstIs(ret, {"1", "4", "7"}) => ret.val = "shallow"
        /\ FirstIs(ret, {"2", "5", "8"}) => ret.val = "medium"
        /\ FirstIs(ret, {"3", "6", "9"}) => ret.val = "deep"

C2_Witness == Ended(Depth) /\ ret.arg = <<"7", "x">> /\ ret.val = "shallow"

\* C3: both classifiers are total over all strings: every call, the one on
\* the empty string included, ends by returning a class or None, and none
\* ends by raising an error.
C3_Total == ret.val \notin {IndexError, ValueError}

\* The classes a dict gives digit d, and the digits of 1..9 it gives class k.
ClassesOf(dict, d) == {dict[i][1] : i \in {j \in DOMAIN dict : In(d, dict[j][2])}}
DigitsOf(dict, k) ==
    {d \in 1..9 : \E i \in DOMAIN dict : dict[i][1] = k /\ In(d, dict[i][2])}

Partitions(dict) ==
    /\ Cardinality({dict[i][1] : i \in DOMAIN dict}) = 3
    /\ \A d \in 1..9 : Cardinality(ClassesOf(dict, d)) = 1
    /\ \A i \in DOMAIN dict : Cardinality(DigitsOf(dict, dict[i][1])) = 3

Digits1to9 == {"1", "2", "3", "4", "5", "6", "7", "8", "9"}

\* C4: on each axis the digit lists partition 1..9: every digit of 1..9 is in
\* the list of exactly one class, each of the three classes has exactly three
\* digits, and the class a classifier is about to return for a digit of 1..9
\* is the one class whose list holds the digit.
C4_Partition ==
    /\ veg_class # UnboundDict => Partitions(veg_class)
    /\ depth_class # UnboundDict => Partitions(depth_class)
    /\ (pc = At(Veg, 312) /\ site_id[1] \in Digits1to9)
          => ClassesOf(veg_class, class_id) = {vclass}
    /\ (pc = At(Depth, 363) /\ site_id[1] \in Digits1to9)
          => ClassesOf(depth_class, class_id) = {dclass}

C4_Witness == pc = At(Depth, 363) /\ site_id = <<"6", "1">> /\ dclass = "deep"

\* C5: for a site identifier whose first character is a letter, punctuation
\* or a space, both classifiers return None, and raise nothing.
C5_NonNumericIsNone ==
    (pc = Idle /\ ret.fn # "none" /\ FirstIs(ret, {"T", "x", " ", "-"}))
        => ret.val = None

C5_Witness == Ended(Veg) /\ ret.arg = <<"T", "1">> /\ ret.val = None

\* C6: for a site identifier whose first character is the digit 0, both
\* classifiers return None.
C6_ZeroIsNone ==
    (pc = Idle /\ ret.fn # "none" /\ FirstIs(ret, {"0"})) => ret.val = None

C6_Witness == Ended(Depth) /\ ret.arg = <<"0", "x">> /\ ret.val = None

\* C7: for one and the same site identifier, the vegetation classifier
\* returns None exactly when the depth classifier returns None.
C7_UndefinedTogether ==
    (TwoEnded /\ earlier.fn # ret.fn /\ earlier.arg = ret.arg)
        => (earlier.val = None <=> ret.val = None)

C7_Witness ==
    /\ TwoEnded
    /\ earlier = Outcome(Veg, <<"9", "x">>, "dense")
    /\ ret = Outcome(Depth, <<"9", "x">>, "deep")

\* C8: a call returns what an earlier call of the same classifier with the
\* same site identifier returned, whatever calls ran in between.
C8_Deterministic ==
    (TwoEnded /\ earlier.fn = ret.fn /\ earlier.arg = ret.arg)
        => earlier.val = ret.val

C8_Witness ==
    /\ TwoEnded
    /\ earlier = Outcome(Veg, <<"T">>, None)
    /\ ret = Outcome(Veg, <<"T">>, None)

\* C9: a running call has no side effects: each of its steps leaves its
\* argument, both lookup dicts and what the caller holds unchanged, and the
\* step that ends it changes only what the caller is given, which is the
\* outcome of this classifier for the argument it was called with.
C9_NoSideEffects ==
    [][pc # Idle =>
          /\ earlier' = earlier
          /\ pc' # Idle =>
                /\ site_id' = site_id
                /\ veg_class' = veg_class
                /\ depth_class' = depth_class
                /\ ret' = ret
          /\ pc' = Idle => (ret'.fn = pc.fn /\ ret'.arg = site_id)]_vars

C9_Witness ==
    /\ TwoEnded
    /\ earlier.val = None
    /\ ret.val = "sparse"

\* C10: two non-empty site identifiers with the same first character get the
\* same outcome from the same classifier, whatever their lengths and their
\* other characters.
C10_FirstCharOnly ==
    (TwoEnded /\ earlier.fn = ret.fn /\ Len(earlier.arg) > 0 /\ Len(ret.arg) > 0
        /\ earlier.arg[1] = ret.arg[1])
        => earlier.val = ret.val

C10_Witness ==
    /\ TwoEnded
    /\ earlier = Outcome(Depth, <<"8">>, "medium")
    /\ ret = Outcome(Depth, <<"8", "1">>, "medium")

----------------------------------------------------------------------------
(* Properties of the classified rows and the counts *)

VegClasses == {"treeless", "sparse", "dense"}
DepthClasses == {"shallow", "medium", "deep"}

\* Both comprehensions have run to their end: df has both class columns.
Classified == cell \in {"groupby", "end"}

Pair(i) == <<df_veg_class[i], df_depth_class[i]>>

\* C11: digit -> (vegetation class, depth class) is a bijection from 1..9 onto
\* the nine pairs of a vegetation class and a depth class: every row starting
\* with a digit of 1..9 has one of the nine pairs, and two such rows have the
\* same pair exactly when they start with the same digit (nine digits with
\* nine different pairs out of nine fill all of them, each once).
C11_Bijection ==
    Classified =>
        \A i, j \in DOMAIN df_site_id :
            (df_site_id[i][1] \in Digits1to9 /\ df_site_id[j][1] \in Digits1to9) =>
                /\ Pair(i) \in VegClasses \X DepthClasses
                /\ (Pair(i) = Pair(j)) <=> (df_site_id[i][1] = df_site_id[j][1])

C11_Witness ==
    /\ cell = "end"
    /\ df_site_id = << <<"1">>, <<"2">>, <<"4">> >>
    /\ df_veg_class = <<"treeless", "treeless", "sparse">>
    /\ df_depth_class = <<"shallow", "medium", "shallow">>

\* The single table the design notes propose: digit -> (vegetation, depth).
SiteClassTable ==
    [d \in 1..9 |->
        << (IF d <= 3 THEN "treeless" ELSE IF d <= 6 THEN "sparse" ELSE "dense"),
           (IF d % 3 = 1 THEN "shallow" ELSE IF d % 3 = 2 THEN "medium" ELSE "deep") >>]

\* The pair it gives a site identifier: undefined for both when the first
\* character is not a digit of 1..9.
classify_site(s) ==
    IF Len(s) > 0 /\ s[1] \in Digits1to9 THEN SiteClassTable[int(s[1])]
    ELSE <<None, None>>

\* C12: for every site identifier, the single table gives the pair
\* (what parse_veg_class gives, what parse_depth_class gives).
C12_UnifiedLookup ==
    (pc = Idle /\ ret.fn # "none")
        => ret.val = classify_site(ret.arg)[IF ret.fn = Veg THEN 1 ELSE 2]

\* C13: whenever the first character passes isnumeric(), int() of it
\* succeeds and the step goes on to the lookup loop.
C13_NumericConverts ==
    [][/\ (pc = At(Veg, 304) /\ isnumeric(class_id)) => pc' = At(Veg, 307)
       /\ (pc = At(Depth, 355) /\ isnumeric(class_id)) => pc' = At(Depth, 358)]_vars

\* The dict with its entries in every order.
Orders(dict) ==
    {[i \in DOMAIN dict |-> dict[p[i]]] : p \in Permutations(DOMAIN dict)}

\* The loop of one classifier, with its dict, its result, and the statements
\* of the loop and of the return.
FullScan(fn, loop, return, dict, result) ==
    /\ (pc = At(fn, loop) /\ it <= Len(dict) /\ In(class_id, dict[it][2]))
          => result = None
    /\ (pc = At(fn, return) /\ isnumeric(site_id[1])) =>
          /\ it = Len(dict) + 1
          /\ \A o \in Orders(dict) : Items(o, class_id, 1, None) = result
          /\ result = None <=> ClassesOf(dict, class_id) = {}

\* C14: the loop of each classifier goes through every entry of its dict,
\* match or no match; an entry that matches finds the result still None, so
\* the result is assigned at most once; the class returned is what the loop
\* gives with the entries in any order, and it is None exactly when no entry
\* holds the digit.
C14_FullScan ==
    /\ FullScan(Veg, 307, 312, veg_class, vclass)
    /\ FullScan(Depth, 358, 363, depth_class, dclass)

C14_Witness ==
    /\ pc = At(Veg, 312)
    /\ site_id = <<"1", "x">>
    /\ it = 4
    /\ vclass = "treeless"

\* C15: applying the classifiers to df['site_id'] gives one vegetation label
\* and one depth label (or None) for each row, in the order of the rows: once
\* the two statements are over, each class column is as long as site_id and
\* its entry i is the classifier's result for site_id i.
C15_ColumnsPerRow ==
    cell \notin {"veg_class", "depth_class"} =>
        /\ df_veg_class # NoColumn
        /\ df_depth_class # NoColumn
        /\ Len(df_veg_class) = Len(df_site_id)
        /\ Len(df_depth_class) = Len(df_site_id)
        /\ \A i \in DOMAIN df_site_id :
              /\ df_veg_class[i] = parse_veg_class(df_site_id[i])
              /\ df_depth_class[i] = parse_depth_class(df_site_id[i])

RECURSIVE SumOf(_)
SumOf(f) ==
    IF DOMAIN f = {} THEN 0
    ELSE LET k == CHOOSE x \in DOMAIN f : TRUE
         IN f[k] + SumOf([x \in DOMAIN f \ {k} |-> f[x]])

\* The distinct site identifiers of the rows whose column col holds class k.
SitesOf(col, k) == {df_site_id[i] : i \in {j \in DOMAIN col : col[j] = k}}

CountsSites(counts, col, classes) ==
    /\ DOMAIN counts \subseteq classes
    /\ \A k \in classes :
          IF SitesOf(col, k) = {} THEN k \notin DOMAIN counts
          ELSE k \in DOMAIN counts /\ counts[k] = Cardinality(SitesOf(col, k))

\* The distinct site identifiers that start with a decimal digit of value 1 to 9.
DigitSites ==
    {df_site_id[i] : i \in {j \in DOMAIN df_site_id :
                               df_site_id[j][1] \in Digits1to9 \cup {"U+0663"}}}

\* C16: the counts treat None as unclassified: each distinct site identifier
\* with a class is counted once in the vegetation counts and once in the depth
\* counts, under its class; one whose class is None is counted nowhere; so the
\* vegetation counts and the depth counts each add up to the number of
\* distinct site identifiers that start with a digit of 1 to 9, however many
\* rows a site has.
C16_CountsDistinctSites ==
    cell = "end" =>
        /\ CountsSites(veg_counts, df_veg_class, VegClasses)
        /\ CountsSites(depth_counts, df_depth_class, DepthClasses)
        /\ SumOf(veg_counts) = Cardinality(DigitSites)
        /\ SumOf(depth_counts) = Cardinality(DigitSites)

C16_Witness ==
    /\ cell = "end"
    /\ df_site_id = << <<"7">>, <<"T">>, <<"7">> >>
    /\ veg_counts = ("dense" :> 1)
    /\ depth_counts = ("shallow" :> 1)

----------------------------------------------------------------------------
(* Properties of the notebooks' sessions and raster handles *)

\* C17: when the querying notebook's cells have run in order to the end,
\* every session get_db made has been closed after the last query executed on
\* it: none is left in a transaction.
C17_SessionsClosed ==
    qcell = "end" => \A i \in DOMAIN sessions : sessions[i] = "closed"

\* C18: when the lidar notebook's cells have run in order to the end, every
\* handle that was opened on a raster has been closed.
C18_HandlesClosed ==
    lcell = "end" => \A i \in DOMAIN handles : ~handles[i].open

\* C19: no cell reads a raster handle that is closed, and the second
\* SD_GM_3m.close(), on the handle already closed, changes nothing.
C19_NoUseAfterClose ==
    [][/\ \A n \in Reads(lcell) : IsOpen(n)
       /\ lcell = "close SD_GM_3m again" => <<handles, ns, disk>>' = <<handles, ns, disk>>
      ]_vars

\* The notebook has run to its end: the closed SD_GM_3m was closed again, a
\* new handle was opened for the mask, and every cell that reads has read.
C19_Witness ==
    /\ lcell = "end"
    /\ Len(handles) = 10
    /\ ~handles[1].open
    /\ "new_res" \in DOMAIN ns

\* The metadata a clip of the source raster f is to be written with: the
\* height, width and transform of the masked window of f, and the CRS of f's
\* own EPSG code.
ClipMeta(f) ==
    [driver |-> "GTiff", count |-> 1,
     height |-> covered[f].height, width |-> covered[f].width,
     transform |-> <<f, "window">>,
     crs |-> to_proj4(EpsgCodeOf(disk[f].meta.crs))]

\* C20: each clipped raster is written with the metadata of the raster it was
\* clipped from, the 3 m clip and the 50 m clip alike.
C20_ClipMetadata ==
    /\ out_tif \in DOMAIN disk => disk[out_tif].meta = ClipMeta(fparts_SD_GM_3m)
    /\ out_tif_50 \in DOMAIN disk => disk[out_tif_50].meta = ClipMeta(fparts_SD_GM_50m)

\* C21: once examples 1a, 1b and 1c have run, with dt the first of the
\* sensor's flight dates, every pit of the exact-date frame is in the range
\* frame and in the frame of all flight dates, and every pit of the range
\* frame is dated dt - 1, dt or dt + 1.
C21_NestedSelections ==
    qcell \in {"1d", "density", "rollback", "close", "end"} =>
        /\ df_exact \subseteq df_range
        /\ df_exact \subseteq df
        /\ \A r \in df_range : r.date \in {dates[1] - 1, dates[1], dates[1] + 1}

\* The three examples have run on a database with a pit on the first flight
\* date, a pit a day from it that is on no flight date, and a pit outside
\* the three days.
C21_Witness ==
    /\ qcell = "1d"
    /\ df_exact # {}
    /\ df_range \ df # {}
    /\ Rows(site_data) \ df_range # {}

====
